---- MODULE Spec2Model ----
(***************************************************************************)
(* Generation-and-revision workflow of CAD2.py: the CADChatbotApp window   *)
(* (UI thread), its CadQueryGenerator worker threads, the queued signals   *)
(* between them, the ModelViewer and the mesh files on disk.               *)
(*                                                                         *)
(* Abstractions:                                                           *)
(*  - a code text is an element of Codes, "" is the empty text; None and   *)
(*    "" are both written "" (the code only tests them for truthiness);    *)
(*  - the text of a reply is cleaned of its fences (lines 100-103) on     *)
(*    sequences of characters, under SpecFence; everywhere else the code   *)
(*    text a reply carries is the cleaned one;                             *)
(*  - the outcome of exec()/exportStl()/pv.read(), the reply of the remote *)
(*    service and the answers to dialogs are inputs, drawn per call from   *)
(*    the sets of an environment record; a specification picks the         *)
(*    environment it runs in;                                              *)
(*  - the description box content at the moment of the click is an input;  *)
(*  - status is the text in status_label: its kind and the code text it    *)
(*    quotes ("" when it quotes none); chat_last is the kind of the last   *)
(*    line of chat_history_display ("" when it is empty); an environment   *)
(*    with messages = FALSE keeps only whether the transcript is empty;    *)
(*  - signals emitted by a worker are queued to the UI thread and handled  *)
(*    in emission order (Qt queued connections);                           *)
(*  - the thread object replaced at lines 620/657 keeps running;           *)
(*  - os.remove of a temporary file the program itself created succeeds;   *)
(*    of a file the user chose it is an input;                             *)
(*  - a toolbar action or button only triggers its slot while enabled.     *)
(***************************************************************************)
EXTENDS Integers, Sequences, FiniteSets, TLC

\* ---------------------------------------------------------------- bounds
MaxHist == 3
MaxWorkers == 2
MaxTemp == 2
MaxInner == 3

Codes == {"a", "b"}
Workers == 1..MaxWorkers

\* a path is the area it lies in and a number within the area: "tmp" is the
\* temporary directory, "home" a user directory, "home_tmp" a user
\* directory whose name contains the name of the temporary directory
\* (/home/u/tmp/part.stl when the temporary directory is /tmp); number 0 in
\* "tmp" is a file in the temporary directory that the program did not
\* create and the user may choose in a file dialog
TempNames == {[area |-> "tmp", n |-> i] : i \in 1..MaxTemp}
HomePath == [area |-> "home", n |-> 0]
HomeTmpPath == [area |-> "home_tmp", n |-> 0]
SavePath == [area |-> "home", n |-> 1]
NoPath == [area |-> "", n |-> 0]
TmpUserPath == [area |-> "tmp", n |-> 0]
UserPaths == {HomePath, HomeTmpPath, TmpUserPath}

NetOutcomes == {"http_error", "connection_error", "request_error",
                "json_error", "unexpected_error", "no_candidates", "text"}
ExecOutcomes == {"ok", "export_error", "invalid_result", "syntax_error",
                 "runtime_error", "base_exception"}

\* what a code text does when it is executed and its result exported:
\* raise: what exec raises ("none": it returns); result: what the name
\* 'result' is bound to afterwards ("absent": the script never assigns it,
\* exec_globals holds None; "other": an object of another type, such as 5);
\* export: whether exportStl into the temporary file succeeds
Scripts0 ==
    [raise : {"syntax", "runtime", "base"}, result : {"absent"},
     export : {"ok"}]
    \cup [raise : {"none"}, result : {"absent", "none", "other"},
          export : {"ok"}]
    \cup [raise : {"none"}, result : {"workplane"}, export : {"ok", "fail"}]

\* the test of lines 147 and 492 without isinstance: any truthy result
IsModelAnyTruthy(result) == result \in {"other", "workplane"}
\* cad_model and isinstance(cad_model, cq.Workplane)
IsModel(result) == result = "workplane"

\* lines 139-167 and 484-513: where the executor ends for a script; a
\* result that is not a model has no val().exportStl, so going on to the
\* export with it raises AttributeError
ExecOutcome(script) ==
    CASE script.raise = "syntax" -> "syntax_error"
      [] script.raise = "runtime" -> "runtime_error"
      [] script.raise = "base" -> "base_exception"
      [] OTHER ->
            IF IsModel(script.result)
            THEN IF script.result # "workplane" THEN "runtime_error"
                 ELSE IF script.export = "ok" THEN "ok" ELSE "export_error"
            ELSE "invalid_result"

\* the scripts whose execution ends in one of the outcomes outs
Scripts(outs) == {script \in Scripts0 : ExecOutcome(script) \in outs}

\* the environment of the history and concurrency properties: every reply
\* of the service and every outcome of exec(), no export failure, one user
\* file outside the temporary directory, no file written by save_model,
\* message texts not tracked
CoreEnv ==
    [codes |-> Codes \cup {""},
     net |-> NetOutcomes,
     exec |-> ExecOutcomes \ {"export_error"},
     replay |-> ExecOutcomes \ {"export_error"},
     read |-> BOOLEAN,
     remove |-> BOOLEAN,
     open |-> {HomePath, NoPath},
     save |-> {"cancel", "save_error"},
     descriptions |-> {"", "d"},
     upload |-> {"cancel", "unreadable", "image"},
     images |-> {"", "img"},
     reply |-> {"yes", "no"},
     messages |-> FALSE,
     log |-> FALSE,
     prompts |-> FALSE,
     resets |-> FALSE]

\* the environment of a chain of successful generations from a description:
\* the service always replies with a non-empty code, which always executes
\* and exports in the worker
ChainEnv ==
    [CoreEnv EXCEPT !.codes = Codes, !.net = {"text"}, !.exec = {"ok"},
                    !.descriptions = {"d"}, !.log = TRUE]

\* the environment of the message properties: CoreEnv with the kind of
\* every status text and transcript line tracked
MsgEnv == [CoreEnv EXCEPT !.messages = TRUE]

\* the environment of one generation at a time: no sketch is uploaded, so
\* the generate control alone starts workers, and the executed code raises
\* nothing but Exception subclasses
SoloEnv ==
    [CoreEnv EXCEPT !.upload = {"cancel"},
                    !.exec = ExecOutcomes \ {"export_error", "base_exception"},
                    !.replay = ExecOutcomes \ {"export_error", "base_exception"}]

\* the environment of the prompt properties: a worker's record keeps its
\* fields and the mode of the prompt it sent; the code always executes
PromptEnv ==
    [CoreEnv EXCEPT !.prompts = TRUE,
                    !.net = {"text", "connection_error"},
                    !.exec = {"ok"},
                    !.replay = {"ok"}]

\* the environment of the reset properties: SoloEnv with the last open or
\* reset tracked until the next worker is started
ResetEnv == [SoloEnv EXCEPT !.resets = TRUE]

\* the environment of the file properties: every user file can be opened,
\* the export can fail, save_model can write its file; one code text
FileEnv ==
    [CoreEnv EXCEPT !.codes = {"a"},
                    !.exec = ExecOutcomes,
                    !.replay = ExecOutcomes,
                    !.open = UserPaths \cup {NoPath},
                    !.save = {"cancel", "saved", "save_error"}]

VARIABLES
    current_cad_code,   \* CADChatbotApp.current_cad_code
    model_history,      \* CADChatbotApp.model_history (1-based sequence here)
    history_pointer,    \* CADChatbotApp.history_pointer (0-based, -1 = none)
    undo_enabled,       \* undo_action.isEnabled()
    redo_enabled,       \* redo_action.isEnabled()
    generate_enabled,   \* generate_button.isEnabled()
    generator_thread,   \* CADChatbotApp.generator_thread is not None
    status,             \* kind of status_label text
    chat_last,          \* kind of the last transcript line, "" = empty
    current_mesh,       \* ModelViewer.current_mesh is not None
    plotter_shown,      \* the plotter shows a mesh actor
    workers,            \* per worker thread: position in run() and fields
    events,             \* signals queued to the UI thread
    files,              \* mesh files that exist on disk
    trail,              \* history variable: the last undo/redo steps
    generated,          \* history variable: the codes of the workers whose
                        \* generation_finished was handled (chain only)
    reply_text,         \* a reply text and what lines 100-103 make of it
                        \* (fence specification only)
    since               \* history variable: "open" after open_file loaded
                        \* a mesh, "reset" after clear_model or a confirmed
                        \* new_file, "none" once a worker was started since
                        \* (reset specification only)

uiCode == <<current_cad_code, model_history, history_pointer>>
uiFlags == <<undo_enabled, redo_enabled>>
uiGen == <<generate_enabled, generator_thread>>
uiText == <<status, chat_last>>
viewer == <<current_mesh, plotter_shown>>
vars == <<current_cad_code, model_history, history_pointer, undo_enabled,
          redo_enabled, generate_enabled, generator_thread, status,
          chat_last, current_mesh, plotter_shown, workers, events, files,
          trail, generated, reply_text, since>>

\* no reply text under consideration
NoReply == [pc |-> "none", text |-> <<>>, code |-> <<>>]
NoTrail == [op |-> "none", before |-> <<"", <<>>, -1>>]
\* sent: the signals the run has emitted so far, in order; mode: the mode
\* of the prompt the run has sent ("" before, and where it is not tracked)
IdleWorker ==
    [pc |-> "none", existing |-> "", image |-> "", code |-> "",
     sent |-> <<>>, mode |-> ""]

\* ------------------------------------------------------------- helpers
\* self.model_history[i] for a Python index i: 0-based, a negative index
\* counts from the end, any other index raises IndexError
InRange(h, i) == -Len(h) <= i /\ i < Len(h)
HistAtNext(h, i) == IF i < 0 THEN h[Len(h) + i + 1] ELSE h[i + 2]
HistAt(h, i) == IF i < 0 THEN h[Len(h) + i + 1] ELSE h[i + 1]

\* self.model_history[:n]
Prefix(h, n) == SubSeq(h, 1, n)

\* tempfile.gettempdir() in stl_filepath: a substring test, so it also
\* holds of a permanent path that contains the temporary directory's name
TempDirIn(path) == path.area \in {"tmp", "home_tmp"}

\* tempfile.NamedTemporaryFile(delete=False): a name not in use
FreeTemps == TempNames \ files
NewTemp == CHOOSE p \in FreeTemps : \A q \in FreeTemps : p.n <= q.n

\* the text kinds shown to the user, as far as the environment tracks them
StatusText(e, m) ==
    [kind |-> IF e.messages THEN m ELSE "status", code |-> ""]
ChatText(e, m) == IF e.messages THEN m ELSE "line"
ErrorText(e, kind, code) ==
    IF e.messages THEN [kind |-> kind, code |-> code]
    ELSE [kind |-> "error", code |-> ""]

Pending(w) == \E i \in 1..Len(events) : events[i].w = w
PendingTerminal(w) ==
    \E i \in 1..Len(events) :
        events[i].w = w /\ events[i].sig \in {"finished", "error"}
Running(w) == workers[w].pc \in {"net", "exec"}
InFlight(w) == Running(w) \/ PendingTerminal(w)
FreeSlot(w) == ~Running(w) /\ ~Pending(w)
Busy == {w \in Workers : ~FreeSlot(w)}

\* bound on the model: a new worker needs a thread slot, and the history
\* it may extend stays within MaxHist
CanStart ==
    /\ \E w \in Workers : FreeSlot(w)
    /\ Len(model_history) + Cardinality(Busy) < MaxHist
NewWorker ==
    CHOOSE w \in Workers : FreeSlot(w) /\ \A v \in Workers : FreeSlot(v) => w <= v

Emit(sig, w, arg) ==
    events' = Append(events, [sig |-> sig, w |-> w, arg |-> arg])

\* the mark left in since by an open ("open") or a reset ("reset"), as far
\* as the environment tracks it
Since(e, mark) == IF e.resets THEN mark ELSE "none"

\* the worker's record after it emitted sig and moved to pc
Sent(wr, sig, pc) == [wr EXCEPT !.pc = pc, !.sent = Append(wr.sent, sig)]

\* ------------------------------------------------------------ Init
Init ==
    /\ current_cad_code = ""
    /\ model_history = <<>>
    /\ history_pointer = -1
    /\ undo_enabled = FALSE
    /\ redo_enabled = FALSE
    /\ generate_enabled = TRUE
    /\ generator_thread = FALSE
    /\ status = [kind |-> "status", code |-> ""]
    /\ chat_last = ""
    /\ current_mesh = FALSE
    /\ plotter_shown = FALSE
    /\ workers = [w \in Workers |-> IdleWorker]
    /\ events = <<>>
    /\ files = UserPaths
    /\ trail = NoTrail
    /\ generated = <<>>
    /\ reply_text = NoReply
    /\ since = "none"

\* ------------------------------------------------ CADChatbotApp helpers
\* _update_undo_redo_buttons
update_undo_redo_buttons ==
    /\ undo_enabled' = (history_pointer' > 0)
    /\ redo_enabled' = (history_pointer' < Len(model_history') - 1)

\* ModelViewer.load_stl(path): the mesh is set only when the read succeeds;
\* os.remove is called when the file exists and the temp-dir test holds;
\* removed tells whether it succeeds, otherwise its OSError leaves load_stl
\* through the finally clause
load_stl_raises(path, present, removed) ==
    path \in present /\ TempDirIn(path) /\ ~removed

load_stl(path, present, readok, removed) ==
    /\ current_mesh' = (path \in present /\ readok)
    /\ plotter_shown' = (path \in present /\ readok)
    /\ files' = IF path \in present /\ TempDirIn(path) /\ removed
                THEN present \ {path}
                ELSE present

\* _execute_cad_code_and_display(code), up to its return or to the
\* exception that escapes it; sets status, viewer and files
execute_cad_code_and_display(e, code, out, readok) ==
    IF code = "" THEN
        /\ current_mesh' = FALSE /\ plotter_shown' = FALSE
        /\ status' = StatusText(e, "no_code") /\ UNCHANGED files
    ELSE
    CASE out = "ok" ->
            /\ FreeTemps # {}
            /\ load_stl(NewTemp, files \cup {NewTemp}, readok, TRUE)
            /\ status' = StatusText(e, "displayed")
      [] out = "export_error" ->
            /\ FreeTemps # {}
            /\ files' = files \cup {NewTemp}
            /\ status' = StatusText(e, "replay_error")
            /\ UNCHANGED viewer
      [] out = "invalid_result" ->
            status' = StatusText(e, "replay_invalid") /\ UNCHANGED <<viewer, files>>
      [] out = "syntax_error" ->
            status' = StatusText(e, "replay_syntax") /\ UNCHANGED <<viewer, files>>
      [] out = "runtime_error" ->
            status' = StatusText(e, "replay_error") /\ UNCHANGED <<viewer, files>>
      [] out = "base_exception" ->
            UNCHANGED <<status, viewer, files>>

\* ---------------------------------------------------- UI-thread actions
\* the guards of lines 577 and 590
CanUndoFromZero(p) == p >= 0
CanUndo(p) == p > 0
CanRedoPastTail(h, p) == p <= Len(h) - 1
CanRedo(h, p) == p < Len(h) - 1

\* lines 579-584 and 592-597 after the cursor has moved: the snapshot is
\* read (an IndexError escapes the slot), made current and replayed
replay_snapshot_script(e, line, script) ==
    IF InRange(model_history, history_pointer')
    THEN \E readok \in e.read :
            LET out == ExecOutcome(script) IN
            /\ current_cad_code' = HistAt(model_history, history_pointer')
            /\ execute_cad_code_and_display(e, current_cad_code', out, readok)
            /\ IF out = "base_exception"
               THEN UNCHANGED <<chat_last, uiFlags>>
               ELSE chat_last' = ChatText(e, line) /\ update_undo_redo_buttons
    ELSE UNCHANGED <<current_cad_code, uiText, uiFlags, viewer, files>>

replay_snapshot(e, line) ==
    \E script \in Scripts(e.replay) : replay_snapshot_script(e, line, script)

undo_model(e) ==
    /\ undo_enabled
    /\ IF CanUndo(history_pointer) THEN
          /\ history_pointer' = history_pointer - 1
          /\ model_history' = model_history
          /\ replay_snapshot(e, "undo")
          /\ trail' = [op |-> "undo", before |-> uiCode]
          /\ UNCHANGED <<uiGen, workers, events, generated, reply_text, since>>
       ELSE
          /\ status' = StatusText(e, "no_undo")
          /\ trail' = [op |-> "no_undo", before |-> uiCode]
          /\ UNCHANGED <<uiCode, uiFlags, uiGen, chat_last, viewer, workers,
                         events, files, generated, reply_text, since>>

redo_model(e) ==
    /\ redo_enabled
    /\ IF CanRedo(model_history, history_pointer) THEN
          /\ history_pointer' = history_pointer + 1
          /\ model_history' = model_history
          /\ replay_snapshot(e, "redo")
          /\ trail' = IF trail.op = "undo"
                      THEN [op |-> "undo_redo", before |-> trail.before]
                      ELSE NoTrail
          /\ UNCHANGED <<uiGen, workers, events, generated, reply_text, since>>
       ELSE
          /\ status' = StatusText(e, "no_redo")
          /\ trail' = [op |-> "no_redo", before |-> uiCode]
          /\ UNCHANGED <<uiCode, uiFlags, uiGen, chat_last, viewer, workers,
                         events, files, generated, reply_text, since>>

\* the reset without line 573: the cursor is left where it was
reset_session_keeps_cursor ==
    /\ current_mesh' = FALSE
    /\ plotter_shown' = FALSE
    /\ current_cad_code' = ""
    /\ model_history' = <<>>
    /\ history_pointer' = history_pointer
    /\ chat_last' = ""
    /\ update_undo_redo_buttons
    /\ trail' = NoTrail
    /\ UNCHANGED <<uiGen, workers, events, files, generated, reply_text>>

\* the reset shared by new_file (520-528) and clear_model (567-574)
reset_session ==
    /\ current_mesh' = FALSE
    /\ plotter_shown' = FALSE
    /\ current_cad_code' = ""
    /\ model_history' = <<>>
    /\ history_pointer' = -1
    /\ chat_last' = ""
    /\ update_undo_redo_buttons
    /\ trail' = NoTrail
    /\ UNCHANGED <<uiGen, workers, events, files, generated, reply_text>>

\* new_file without the test of line 519
new_file_unasked(e, reply) ==
    /\ status' = StatusText(e, "new_session")
    /\ reset_session
    /\ since' = Since(e, "reset")

\* new_file after the user answered the question of lines 516-518
new_file_answered(e, reply) ==
    IF reply = "yes"
    THEN /\ status' = StatusText(e, "new_session")
         /\ reset_session
         /\ since' = Since(e, "reset")
    ELSE UNCHANGED vars

new_file(e) == \E reply \in e.reply : new_file_answered(e, reply)

clear_model(e) ==
    /\ status' = StatusText(e, "cleared")
    /\ reset_session
    /\ since' = Since(e, "reset")

\* open_file after the dialog returned filepath (NoPath: cancelled)
open_file_chosen(e, filepath) ==
    \E readok \in e.read, removed \in e.remove :
        IF filepath # NoPath
        THEN /\ load_stl(filepath, files, readok, removed)
             /\ IF load_stl_raises(filepath, files, removed)
                THEN /\ status' = StatusText(e, "open_error")
                     /\ UNCHANGED <<uiCode, uiFlags, chat_last>>
                ELSE /\ status' = StatusText(e, "loaded")
                     /\ current_cad_code' = ""
                     /\ model_history' = <<>>
                     /\ history_pointer' = -1
                     /\ update_undo_redo_buttons
                     /\ chat_last' = ChatText(e, "loaded_note")
             /\ trail' = NoTrail
             /\ since' = IF readok THEN Since(e, "open") ELSE since
             /\ UNCHANGED <<uiGen, workers, events, generated, reply_text>>
        ELSE UNCHANGED vars

open_file(e) ==
    \E filepath \in e.open \cap (files \cup {NoPath}) :
        open_file_chosen(e, filepath)

save_model(e) ==
    /\ trail' = NoTrail
    /\ IF current_mesh
       THEN \E choice \in e.save :
              /\ status' = IF choice = "cancel" THEN status
                           ELSE StatusText(e, choice)
              /\ files' = IF choice = "saved" THEN files \cup {SavePath}
                          ELSE files
       ELSE status' = StatusText(e, "no_model_to_save") /\ UNCHANGED files
    /\ UNCHANGED <<uiCode, uiFlags, uiGen, chat_last, viewer, workers,
                   events, generated, reply_text, since>>

\* CadQueryGenerator(...) is constructed, connected and started
start_worker(existing, image) ==
    /\ workers' = [workers EXCEPT ![NewWorker] =
                     [pc |-> "net", existing |-> existing, image |-> image,
                      code |-> "", sent |-> <<>>, mode |-> ""]]
    /\ generator_thread' = TRUE

upload_sketch(e) ==
    \E choice \in e.upload, image \in e.images :
        /\ trail' = NoTrail
        /\ UNCHANGED <<generated, reply_text>>
        /\ CASE choice = "cancel" ->
                  UNCHANGED <<uiCode, uiFlags, uiGen, uiText, viewer,
                              workers, events, files, since>>
             [] choice = "unreadable" ->
                  /\ status' = StatusText(e, "upload_error")
                  /\ generate_enabled' = TRUE
                  /\ chat_last' = ChatText(e, "upload_error")
                  /\ UNCHANGED <<uiCode, uiFlags, generator_thread, viewer,
                                 workers, events, files, since>>
             [] choice = "image" ->
                  /\ CanStart
                  /\ since' = "none"
                  /\ chat_last' = ChatText(e, "you_sketch")
                  /\ generate_enabled' = FALSE
                  /\ status' = StatusText(e, "generating_sketch")
                  /\ plotter_shown' = FALSE
                  /\ start_worker("", image)
                  /\ UNCHANGED <<uiCode, uiFlags, current_mesh, events,
                                 files>>

generate_cad_query(e) ==
    /\ generate_enabled
    /\ trail' = NoTrail
    /\ UNCHANGED <<generated, reply_text>>
    /\ \E description \in e.descriptions :
        IF description = ""
        THEN /\ status' = StatusText(e, "need_description")
             /\ UNCHANGED <<uiCode, uiFlags, uiGen, chat_last, viewer,
                            workers, events, files, since>>
        ELSE /\ CanStart
             /\ since' = "none"
             /\ chat_last' = ChatText(e, "you")
             /\ generate_enabled' = FALSE
             /\ status' = StatusText(e, "generating")
             /\ plotter_shown' = FALSE
             /\ start_worker(current_cad_code, "")
             /\ UNCHANGED <<uiCode, uiFlags, current_mesh, events, files>>

\* ------------------------------------------- signal handlers (UI thread)
\* lines 673-677: prune the redo branch, append, move the cursor
PrunedHistory(h, p) == IF p < Len(h) - 1 THEN Prefix(h, p + 1) ELSE h
PushHistory(h, p, code) == Append(PrunedHistory(h, p), code)

on_code_generated ==
    /\ events # <<>> /\ Head(events).sig = "code"
    /\ current_cad_code' = Head(events).arg
    /\ events' = Tail(events)
    /\ trail' = NoTrail
    /\ UNCHANGED <<model_history, history_pointer, uiFlags, uiGen, uiText,
                   viewer, workers, files, generated, reply_text, since>>

on_generation_finished(e) ==
    /\ events # <<>> /\ Head(events).sig = "finished"
    /\ \E readok \in e.read :
            load_stl(Head(events).arg, files, readok, TRUE)
    /\ status' = StatusText(e, "success")
    /\ generate_enabled' = TRUE
    /\ generator_thread' = FALSE
    /\ chat_last' = ChatText(e, "success")
    /\ current_cad_code' = current_cad_code
    /\ IF current_cad_code # ""
       THEN /\ model_history' =
                  PushHistory(model_history, history_pointer, current_cad_code)
            /\ history_pointer' = Len(model_history') - 1
            /\ update_undo_redo_buttons
       ELSE UNCHANGED <<model_history, history_pointer, uiFlags>>
    /\ events' = Tail(events)
    /\ workers' = [workers EXCEPT ![Head(events).w] = IdleWorker]
    /\ trail' = NoTrail
    /\ generated' = IF e.log
                    THEN Append(generated, workers[Head(events).w].code)
                    ELSE generated
    /\ UNCHANGED <<reply_text, since>>

\* the error handler with the history push of lines 673-678 copied in
on_generation_error_pushes(e) ==
    /\ events # <<>> /\ Head(events).sig = "error"
    /\ status' = IF e.messages THEN Head(events).arg
                 ELSE StatusText(e, "error")
    /\ generate_enabled' = TRUE
    /\ generator_thread' = FALSE
    /\ chat_last' = ChatText(e, "error")
    /\ current_cad_code' = current_cad_code
    /\ IF current_cad_code # ""
       THEN /\ model_history' =
                  PushHistory(model_history, history_pointer, current_cad_code)
            /\ history_pointer' = Len(model_history') - 1
            /\ update_undo_redo_buttons
       ELSE UNCHANGED <<model_history, history_pointer, uiFlags>>
    /\ events' = Tail(events)
    /\ workers' = [workers EXCEPT ![Head(events).w] = IdleWorker]
    /\ trail' = NoTrail
    /\ UNCHANGED <<viewer, files, generated, reply_text, since>>

on_generation_error(e) ==
    /\ events # <<>> /\ Head(events).sig = "error"
    /\ status' = IF e.messages THEN Head(events).arg
                 ELSE StatusText(e, "error")
    /\ generate_enabled' = TRUE
    /\ generator_thread' = FALSE
    /\ chat_last' = ChatText(e, "error")
    /\ events' = Tail(events)
    /\ workers' = [workers EXCEPT ![Head(events).w] = IdleWorker]
    /\ trail' = NoTrail
    /\ UNCHANGED <<uiCode, uiFlags, viewer, files, generated, reply_text,
                   since>>

\* --------------------------------------- CadQueryGenerator.run (worker)
\* lines 49-80 with the first two tests swapped: existing code first
PromptModeCodeFirst(existing, image) ==
    IF existing # "" THEN "Revision"
    ELSE IF image # "" THEN "FromImage"
    ELSE "Fresh"

\* lines 49-80: the prompt built from the worker's fields
PromptMode(existing, image) ==
    IF image # "" THEN "FromImage"
    ELSE IF existing # "" THEN "Revision"
    ELSE "Fresh"

\* the worker's record once the request was sent: the fields are not read
\* again; an environment with prompts = TRUE keeps them and the mode
Requested(e, wr) ==
    IF e.prompts
    THEN [wr EXCEPT !.mode = PromptMode(wr.existing, wr.image)]
    ELSE IdleWorker

\* run() without the return statements of lines 110-136: after
\* generation_error it goes on to line 138
run_request_no_return(e, w) ==
    /\ workers[w].pc = "net"
    /\ \E net \in e.net, text \in e.codes :
        IF net = "text"
        THEN /\ workers' = [workers EXCEPT ![w] =
                     Sent([IdleWorker EXCEPT !.code = text], "code", "exec")]
             /\ Emit("code", w, text)
        ELSE /\ workers' = [workers EXCEPT ![w] =
                              Sent(IdleWorker, "error", "exec")]
             /\ Emit("error", w, ErrorText(e, net, ""))
    /\ UNCHANGED <<uiCode, uiFlags, uiGen, uiText, viewer, files, trail,
                   generated, reply_text, since>>

\* line 105 moved behind the if/else of lines 94-110 and the handlers:
\* code_generated is emitted with cad_query_code_str, still "", before
\* the failure is reported
run_request_reply_code_always(e, w, net, text) ==
    /\ workers[w].pc = "net"
    /\ IF net = "text"
       THEN /\ workers' = [workers EXCEPT ![w] =
                    Sent([Requested(e, @) EXCEPT !.code = text],
                         "code", "exec")]
            /\ Emit("code", w, text)
       ELSE /\ workers' = [workers EXCEPT ![w] =
                    Sent(Sent(Requested(e, @), "code", "net"),
                         "error", "done")]
            /\ events' = events \o
                    <<[sig |-> "code", w |-> w, arg |-> ""],
                      [sig |-> "error", w |-> w, arg |-> ErrorText(e, net, "")]>>
    /\ UNCHANGED <<uiCode, uiFlags, uiGen, uiText, viewer, files, trail,
                   generated, reply_text, since>>

\* lines 45-136 for one reply of the service: net is how the request and
\* the parsing of the reply end, text the code text of a complete reply
run_request_reply(e, w, net, text) ==
    /\ workers[w].pc = "net"
    /\ IF net = "text"
       THEN /\ workers' = [workers EXCEPT ![w] =
                    Sent([Requested(e, @) EXCEPT !.code = text],
                         "code", "exec")]
            /\ Emit("code", w, text)
       ELSE /\ workers' = [workers EXCEPT ![w] =
                             Sent(Requested(e, @), "error", "done")]
            /\ Emit("error", w, ErrorText(e, net, ""))
    /\ UNCHANGED <<uiCode, uiFlags, uiGen, uiText, viewer, files, trail,
                   generated, reply_text, since>>

\* lines 45-136: the prompt, the request, the reply and code_generated
run_request(e, w) ==
    \E net \in e.net, text \in e.codes : run_request_reply(e, w, net, text)

\* lines 138-169: exec, export and the final signal
run_execute_script(e, w, script) ==
    /\ workers[w].pc = "exec"
    /\ LET code == workers[w].code
           out == ExecOutcome(script) IN
       IF code = ""
       THEN /\ workers' = [workers EXCEPT ![w] = Sent(@, "error", "done")]
            /\ Emit("error", w, ErrorText(e, "no_code", ""))
            /\ UNCHANGED files
       ELSE CASE out = "ok" ->
                   /\ FreeTemps # {}
                   /\ files' = files \cup {NewTemp}
                   /\ workers' = [workers EXCEPT ![w] =
                                        Sent(@, "finished", "done")]
                   /\ Emit("finished", w, NewTemp)
              [] out = "export_error" ->
                   /\ FreeTemps # {}
                   /\ files' = files \cup {NewTemp}
                   /\ workers' = [workers EXCEPT ![w] =
                                        Sent(@, "error", "done")]
                   /\ Emit("error", w, ErrorText(e, "runtime_error", code))
              [] out \in {"invalid_result", "syntax_error", "runtime_error"} ->
                   /\ workers' = [workers EXCEPT ![w] =
                                        Sent(@, "error", "done")]
                   /\ Emit("error", w, ErrorText(e, out, code))
                   /\ UNCHANGED files
              [] out = "base_exception" ->
                   /\ workers' = [workers EXCEPT ![w] = IdleWorker]
                   /\ UNCHANGED <<events, files>>
    /\ UNCHANGED <<uiCode, uiFlags, uiGen, uiText, viewer, trail, generated,
                   reply_text, since>>

run_execute(e, w) ==
    \E script \in Scripts(e.exec) : run_execute_script(e, w, script)

\* ------------------------------------------------------ fence stripping
\* a reply text is a sequence of characters: "t" a backtick, "p" the word
\* python, " " any whitespace character, "x" any other character
Chars == {"t", "p", " ", "x"}
OpenFence == <<"t", "t", "t", "p">>
CloseFence == <<"t", "t", "t">>

\* str.strip(), one end at a time
RECURSIVE LStrip(_)
LStrip(s) == IF s # <<>> /\ Head(s) = " " THEN LStrip(Tail(s)) ELSE s
RECURSIVE RStrip(_)
RStrip(s) ==
    IF s # <<>> /\ s[Len(s)] = " " THEN RStrip(SubSeq(s, 1, Len(s) - 1))
    ELSE s
Strip(s) == RStrip(LStrip(s))

\* str.startswith(f), str.endswith(f)
StartsWith(s, f) == Len(s) >= Len(f) /\ SubSeq(s, 1, Len(f)) = f
EndsWith(s, f) ==
    Len(s) >= Len(f) /\ SubSeq(s, Len(s) - Len(f) + 1, Len(s)) = f

\* lines 100-103 without the .strip() that ends line 103
StripFencesNoTrim(text) ==
    LET opened == IF StartsWith(Strip(text), OpenFence)
                  THEN Strip(SubSeq(Strip(text), Len(OpenFence) + 1,
                                    Len(Strip(text))))
                  ELSE text
    IN  IF EndsWith(Strip(opened), CloseFence)
        THEN SubSeq(Strip(opened), 1, Len(Strip(opened)) - Len(CloseFence))
        ELSE opened

\* lines 100-103: two independent tests, each on the stripped text; a text
\* that passes neither is left as it is, whitespace included
StripFences(text) ==
    LET opened == IF StartsWith(Strip(text), OpenFence)
                  THEN Strip(SubSeq(Strip(text), Len(OpenFence) + 1,
                                    Len(Strip(text))))
                  ELSE text
    IN  IF EndsWith(Strip(opened), CloseFence)
        THEN Strip(SubSeq(Strip(opened), 1,
                          Len(Strip(opened)) - Len(CloseFence)))
        ELSE opened

\* lines 98-105 for the reply text under consideration: the text of the
\* first part is cleaned, the cleaned text is what code_generated carries
strip_fences ==
    /\ reply_text.pc = "raw"
    /\ reply_text' = [reply_text EXCEPT !.pc = "clean",
                                        !.code = StripFences(reply_text.text)]
    /\ UNCHANGED <<uiCode, uiFlags, uiGen, uiText, viewer, workers, events,
                   files, trail, generated, since>>

\* ------------------------------------------------------- specification
Next ==
    \/ generate_cad_query(CoreEnv)
    \/ upload_sketch(CoreEnv)
    \/ undo_model(CoreEnv)
    \/ redo_model(CoreEnv)
    \/ new_file(CoreEnv)
    \/ open_file(CoreEnv)
    \/ save_model(CoreEnv)
    \/ clear_model(CoreEnv)
    \/ on_code_generated
    \/ on_generation_finished(CoreEnv)
    \/ on_generation_error(CoreEnv)
    \/ \E w \in Workers : run_request(CoreEnv, w)
    \/ \E w \in Workers : run_execute(CoreEnv, w)

Spec == Init /\ [][Next]_vars

\* scheduling: a started QThread keeps running its run() (each call in it
\* returns or raises), and the event loop of the UI thread delivers every
\* queued signal; the user's actions are under no obligation
Fairness ==
    /\ \A w \in Workers : WF_vars(run_request(CoreEnv, w))
    /\ \A w \in Workers : WF_vars(run_execute(CoreEnv, w))
    /\ WF_vars(on_code_generated)
    /\ WF_vars(on_generation_finished(CoreEnv))
    /\ WF_vars(on_generation_error(CoreEnv))

SpecFair == Spec /\ Fairness

\* the same program with message kinds tracked
MsgNext ==
    \/ generate_cad_query(MsgEnv)
    \/ upload_sketch(MsgEnv)
    \/ undo_model(MsgEnv)
    \/ redo_model(MsgEnv)
    \/ new_file(MsgEnv)
    \/ open_file(MsgEnv)
    \/ save_model(MsgEnv)
    \/ clear_model(MsgEnv)
    \/ on_code_generated
    \/ on_generation_finished(MsgEnv)
    \/ on_generation_error(MsgEnv)
    \/ \E w \in Workers : run_request(MsgEnv, w)
    \/ \E w \in Workers : run_execute(MsgEnv, w)

SpecMsg == Init /\ [][MsgNext]_vars

\* the same program with the inputs of SoloEnv
SoloNext ==
    \/ generate_cad_query(SoloEnv)
    \/ upload_sketch(SoloEnv)
    \/ undo_model(SoloEnv)
    \/ redo_model(SoloEnv)
    \/ new_file(SoloEnv)
    \/ open_file(SoloEnv)
    \/ save_model(SoloEnv)
    \/ clear_model(SoloEnv)
    \/ on_code_generated
    \/ on_generation_finished(SoloEnv)
    \/ on_generation_error(SoloEnv)
    \/ \E w \in Workers : run_request(SoloEnv, w)
    \/ \E w \in Workers : run_execute(SoloEnv, w)

SpecSolo == Init /\ [][SoloNext]_vars

ResetNext ==
    \/ generate_cad_query(ResetEnv)
    \/ upload_sketch(ResetEnv)
    \/ undo_model(ResetEnv)
    \/ redo_model(ResetEnv)
    \/ new_file(ResetEnv)
    \/ open_file(ResetEnv)
    \/ save_model(ResetEnv)
    \/ clear_model(ResetEnv)
    \/ on_code_generated
    \/ on_generation_finished(ResetEnv)
    \/ on_generation_error(ResetEnv)
    \/ \E w \in Workers : run_request(ResetEnv, w)
    \/ \E w \in Workers : run_execute(ResetEnv, w)

SpecReset == Init /\ [][ResetNext]_vars

\* the worker as a unit: besides the initial state of the program, the
\* states in which a CadQueryGenerator was constructed with any
\* combination of its optional fields (the constructor of lines 37-42 takes
\* both) and started, as generate_cad_query and upload_sketch start theirs
InitPrompt ==
    /\ current_cad_code = ""
    /\ model_history = <<>>
    /\ history_pointer = -1
    /\ undo_enabled = FALSE
    /\ redo_enabled = FALSE
    /\ status = [kind |-> "status", code |-> ""]
    /\ current_mesh = FALSE
    /\ plotter_shown = FALSE
    /\ events = <<>>
    /\ files = UserPaths
    /\ trail = NoTrail
    /\ generated = <<>>
    /\ reply_text = NoReply
    /\ since = "none"
    /\ \E started \in BOOLEAN, existing \in Codes \cup {""},
          image \in {"", "img"} :
          /\ generate_enabled = ~started
          /\ generator_thread = started
          /\ chat_last = IF started THEN "line" ELSE ""
          /\ workers =
                [w \in Workers |->
                    IF started /\ w = 1
                    THEN [IdleWorker EXCEPT !.pc = "net",
                                            !.existing = existing,
                                            !.image = image]
                    ELSE IdleWorker]

PromptNext ==
    \/ generate_cad_query(PromptEnv)
    \/ upload_sketch(PromptEnv)
    \/ undo_model(PromptEnv)
    \/ redo_model(PromptEnv)
    \/ new_file(PromptEnv)
    \/ open_file(PromptEnv)
    \/ save_model(PromptEnv)
    \/ clear_model(PromptEnv)
    \/ on_code_generated
    \/ on_generation_finished(PromptEnv)
    \/ on_generation_error(PromptEnv)
    \/ \E w \in Workers : run_request(PromptEnv, w)
    \/ \E w \in Workers : run_execute(PromptEnv, w)

SpecPrompt == InitPrompt /\ [][PromptNext]_vars

\* the same program with the file inputs of FileEnv
FileNext ==
    \/ generate_cad_query(FileEnv)
    \/ upload_sketch(FileEnv)
    \/ undo_model(FileEnv)
    \/ redo_model(FileEnv)
    \/ new_file(FileEnv)
    \/ open_file(FileEnv)
    \/ save_model(FileEnv)
    \/ clear_model(FileEnv)
    \/ on_code_generated
    \/ on_generation_finished(FileEnv)
    \/ on_generation_error(FileEnv)
    \/ \E w \in Workers : run_request(FileEnv, w)
    \/ \E w \in Workers : run_execute(FileEnv, w)

SpecFiles == Init /\ [][FileNext]_vars

\* N generations from a description, one after the other, each successful,
\* with nothing in between, then one undo
AtTail == history_pointer = Len(model_history) - 1
chain_generate == AtTail /\ generate_cad_query(ChainEnv)
chain_undo == AtTail /\ Busy = {} /\ undo_model(ChainEnv)

ChainNext ==
    \/ chain_generate
    \/ \E w \in Workers : run_request(ChainEnv, w)
    \/ \E w \in Workers : run_execute(ChainEnv, w)
    \/ on_code_generated
    \/ on_generation_finished(ChainEnv)
    \/ chain_undo

SpecChain == Init /\ [][ChainNext]_vars

\* the reply texts considered: what may stand before the code (nothing,
\* whitespace, an opening fence tagged python, with whitespace on either
\* side, a bare fence, a fence with another tag), the code itself (any
\* characters, up to MaxInner of them), and what may stand after it
FencePrefixes ==
    {<<>>, <<" ">>, OpenFence, <<" ">> \o OpenFence, OpenFence \o <<" ">>,
     CloseFence, CloseFence \o <<"x">>}
FenceSuffixes ==
    {<<>>, <<" ">>, CloseFence, CloseFence \o <<" ">>, <<" ">> \o CloseFence,
     <<" ">> \o CloseFence \o <<" ">>}
InnerTexts == UNION {[1..n -> Chars] : n \in 0..MaxInner}
ReplyTexts ==
    {pre \o inner \o post :
        pre \in FencePrefixes, inner \in InnerTexts, post \in FenceSuffixes}

\* a session in which the worker has just read the text of a reply
InitFence ==
    /\ current_cad_code = ""
    /\ model_history = <<>>
    /\ history_pointer = -1
    /\ undo_enabled = FALSE
    /\ redo_enabled = FALSE
    /\ generate_enabled = TRUE
    /\ generator_thread = FALSE
    /\ status = [kind |-> "status", code |-> ""]
    /\ chat_last = ""
    /\ current_mesh = FALSE
    /\ plotter_shown = FALSE
    /\ workers = [w \in Workers |-> IdleWorker]
    /\ events = <<>>
    /\ files = UserPaths
    /\ trail = NoTrail
    /\ generated = <<>>
    /\ \E text \in ReplyTexts :
        reply_text = [pc |-> "raw", text |-> text, code |-> <<>>]
    /\ since = "none"

FenceNext == strip_fences
SpecFence == InitFence /\ [][FenceNext]_vars

\* ---------------------------------------------------------------- claims
FinishedWorker == Head(events).w

\* C1: at most one generation worker is in flight (started, its
\* generation_finished/generation_error not yet handled) in every state.
C1_AtMostOneInFlight == Cardinality({w \in Workers : InFlight(w)}) <= 1

\* C2: in every reachable state history_pointer lies in
\* [-1, len(model_history)-1], and it is -1 exactly when model_history is
\* empty.
C2_CursorInRange ==
    /\ history_pointer \in -1..(Len(model_history) - 1)
    /\ (history_pointer = -1) <=> (model_history = <<>>)

\* a history of several snapshots with the cursor moved back to the first,
\* while a worker is in flight
C2_Witness ==
    /\ Len(model_history) >= 2
    /\ history_pointer = 0
    /\ \E w \in Workers : InFlight(w)

\* C3: when generation_finished of a worker whose code is d is handled with
\* the cursor k before the tail of the history h, the history becomes
\* h[0..k] followed by d and the cursor k+1.
C3_PushPrunesRedoBranch ==
    [][(on_generation_finished(CoreEnv)
            /\ history_pointer < Len(model_history) - 1)
        => /\ model_history' =
                Append(Prefix(model_history, history_pointer + 1),
                       workers[FinishedWorker].code)
           /\ history_pointer' = history_pointer + 1]_vars

\* C4: after N successful generations from an empty history with nothing in
\* between, one undo makes the code of generation N-1 current; with N <= 1
\* no undo loads anything.
C4_UndoLoadsPrevious ==
    /\ trail.op = "undo" =>
          /\ Len(generated) >= 2
          /\ current_cad_code = generated[Len(generated) - 1]
          /\ history_pointer = Len(generated) - 2
    /\ Len(generated) <= 1 => (~undo_enabled /\ trail.op = "none")

\* three generations, then the undo
C4_Witness == trail.op = "undo" /\ Len(generated) = 3

\* C5: after an undo that moved the cursor and an immediately following
\* redo, current code, history and cursor are what they were before the undo.
C5_RedoRestoresState == trail.op = "undo_redo" => uiCode = trail.before

\* C6: undo_model with the cursor at 0 or -1 loads no snapshot and leaves
\* history_pointer, model_history and current_cad_code unchanged.
C6_UndoAtStartIsNoOp ==
    [][(undo_model(CoreEnv) /\ history_pointer <= 0)
        => UNCHANGED <<uiCode, viewer, files>>]_vars

\* undo_model has run with the cursor at 0
C6_Witness == trail.op = "no_undo" /\ history_pointer = 0

\* C7: redo_model with the cursor at the last index, or with an empty
\* history, loads no snapshot and leaves history_pointer, model_history and
\* current_cad_code unchanged.
C7_RedoAtTailIsNoOp ==
    [][(redo_model(CoreEnv) /\ history_pointer >= Len(model_history) - 1)
        => UNCHANGED <<uiCode, viewer, files>>]_vars

\* redo_model has run with the cursor at the last index
C7_Witness ==
    /\ trail.op = "no_redo"
    /\ history_pointer = Len(model_history) - 1

\* C8: in every state the undo control is enabled exactly when
\* history_pointer > 0 and the redo control exactly when
\* history_pointer < len(model_history)-1.
C8_FlagsMatchCursor ==
    /\ undo_enabled <=> (history_pointer > 0)
    /\ redo_enabled <=> (history_pointer < Len(model_history) - 1)

\* C9: while a worker is in flight, undo_model and redo_model change neither
\* history_pointer nor current_cad_code and replay nothing.
C9_NoReplayWhileGenerating ==
    [][((undo_model(CoreEnv) \/ redo_model(CoreEnv))
            /\ \E w \in Workers : InFlight(w))
        => UNCHANGED <<history_pointer, current_cad_code, viewer, files>>]_vars

\* C10: when generation_finished of a worker is handled, the code that this
\* worker emitted is pushed (after pruning) and the cursor is at the new
\* last index.
C10_PushesWorkersCode ==
    [][on_generation_finished(CoreEnv)
        => /\ model_history' =
                PushHistory(model_history, history_pointer,
                            workers[FinishedWorker].code)
           /\ history_pointer' = Len(model_history') - 1]_vars

\* the kinds of failure a worker reports: the request (network), the reply
\* (parsing, no candidate text, empty text) and the execution
FailureKinds ==
    (NetOutcomes \ {"text"}) \cup
    {"no_code", "syntax_error", "runtime_error", "invalid_result"}

\* C11: handling generation_error leaves model_history and history_pointer
\* unchanged, whatever the kind of failure.
C11_ErrorKeepsHistory ==
    [][on_generation_error(MsgEnv)
        => /\ Head(events).arg.kind \in FailureKinds
           /\ UNCHANGED <<model_history, history_pointer>>]_vars

\* the failure of an execution has been handled while a redo branch exists
C11_Witness ==
    /\ status.kind = "runtime_error"
    /\ chat_last = "error"
    /\ history_pointer < Len(model_history) - 1

\* the session is Idle: the generate control is enabled and no worker runs
\* or has a signal waiting
Idle == generate_enabled /\ Busy = {}

\* C12: whenever the session is Idle and the history is non-empty,
\* current_cad_code is the snapshot at the cursor.
C12_CurrentIsSnapshot ==
    (Idle /\ model_history # <<>>)
        => current_cad_code = HistAt(model_history, history_pointer)

\* C13: under fair scheduling of the workers and of signal delivery, every
\* started worker eventually has its generation_finished or
\* generation_error handled, with the generate control enabled again.
C13_EventuallyIdle ==
    \A w \in Workers : Running(w) ~> (generate_enabled /\ ~InFlight(w))

TerminalSignals == {"finished", "error"}

\* C14: in one run of a worker at most one of code_generated,
\* generation_finished and generation_error is emitted.
C14_SignalsExclusive == \A w \in Workers : Len(workers[w].sent) <= 1

\* C14 as amended: in one run of a worker at most one of generation_finished
\* and generation_error is emitted, and nothing after it; code_generated is
\* emitted at most once, before it, and always before generation_finished.
C14_TerminalExclusive ==
    \A w \in Workers :
        LET sent == workers[w].sent IN
        /\ Len(sent) <= 2
        /\ \A i \in 1..Len(sent) :
              sent[i] \in TerminalSignals => i = Len(sent)
        /\ Len(sent) = 2 => sent[1] = "code"
        /\ (sent # <<>> /\ sent[Len(sent)] = "finished") => Len(sent) = 2

\* a run that emitted code_generated and then generation_error
C14_Witness ==
    \E w \in Workers :
        workers[w].pc = "done" /\ workers[w].sent = <<"code", "error">>

\* the temporary-file area: the files of the temporary directory itself
InTempArea(path) == path.area = "tmp"

\* C15: load_stl deletes the mesh file it was given when that file lies in
\* the temporary-file area, and no step deletes a file outside that area: a
\* permanent file the user opened still exists afterwards.
C15_OnlyTempDeleted ==
    [][/\ \A path \in files : ~InTempArea(path) => path \in files'
       /\ on_generation_finished(FileEnv) => Head(events).arg \notin files']_vars

\* C16: open_file with a chosen path leaves current_cad_code empty, the
\* history empty and the cursor at -1, and runs neither a worker nor the
\* code executor (no signal, no exported file); with the dialog cancelled it
\* changes nothing.
C16_OpenResetsSession ==
    [][/\ \A filepath \in UserPaths :
            open_file_chosen(FileEnv, filepath)
                => /\ current_cad_code' = ""
                   /\ model_history' = <<>>
                   /\ history_pointer' = -1
                   /\ files' \subseteq files
                   /\ UNCHANGED <<workers, events>>
       /\ open_file_chosen(FileEnv, NoPath) => UNCHANGED vars]_vars

\* what new_file and clear_model reset
SessionView ==
    <<current_cad_code, model_history, history_pointer, chat_last,
      current_mesh, plotter_shown>>
FreshView == <<"", <<>>, -1, "", FALSE, FALSE>>

C18_NoSaveWithoutMesh ==
    [][(save_model(FileEnv) /\ ~plotter_shown)
        => (files' = files /\ status' = StatusText(FileEnv, "no_model_to_save"))]_vars

\* the kinds of execution failure, as the worker and as the replay of
\* undo/redo report them
ExecFailureKinds == {"syntax_error", "runtime_error", "invalid_result"}
ReplayFailureKinds == {"replay_syntax", "replay_error", "replay_invalid"}
LastEvent == events'[Len(events')]

\* C19: every execution failure message, of the worker and of the undo/redo
\* replay, contains the full text of the code that was executed.
C19_FailureQuotesCode ==
    [][/\ \A w \in Workers :
            (/\ run_execute(MsgEnv, w)
             /\ Len(events') = Len(events) + 1
             /\ LastEvent.sig = "error"
             /\ LastEvent.arg.kind \in ExecFailureKinds)
                => LastEvent.arg.code = workers[w].code
       /\ (/\ undo_model(MsgEnv) \/ redo_model(MsgEnv)
           /\ history_pointer' # history_pointer
           /\ status'.kind \in ReplayFailureKinds)
                => status'.code = current_cad_code']_vars

\* C20: no exception raised by the executed code leaves the executor: the
\* worker's execution step always ends with a notification (the terminal
\* signal of the run), and an undo or redo that replays a snapshot always
\* runs to its last statement, the refresh of the undo/redo controls.
C20_NoEscape ==
    [][/\ \A w \in Workers :
            run_execute(CoreEnv, w)
                => /\ Len(events') = Len(events) + 1
                   /\ LastEvent.sig \in TerminalSignals
       /\ (\/ undo_model(CoreEnv) /\ CanUndo(history_pointer)
           \/ redo_model(CoreEnv) /\ CanRedo(model_history, history_pointer))
                => /\ undo_enabled' = (history_pointer' > 0)
                   /\ redo_enabled' =
                        (history_pointer' < Len(model_history') - 1)]_vars

\* a script that returns and leaves no Workplane in 'result'
NoModel(script) == script.raise = "none" /\ script.result # "workplane"

\* what C21 says of a replay step that executed script
ReplayNeedsWorkplane(script) ==
    /\ (script.raise # "base" /\ script.result # "workplane")
            => status'.kind # "displayed"
    /\ NoModel(script)
            => (status'.kind = "replay_invalid" /\ UNCHANGED <<viewer, files>>)

\* C21: execution succeeds (generation_finished is emitted, the replay
\* displays the model) only if 'result' is bound to a Workplane; a script
\* that returns with 'result' absent, None or of another type ends in the
\* invalid-result failure and no file is created.
C21_SuccessNeedsWorkplane ==
    [][/\ \A w \in Workers :
            (/\ workers[w].pc = "exec"
             /\ workers'[w].pc # "exec"
             /\ workers[w].code # "")
                => \A script \in Scripts0 :
                    run_execute_script(MsgEnv, w, script)
                        => /\ (Len(events') > Len(events)
                                    /\ LastEvent.sig = "finished")
                                => script.result = "workplane"
                           /\ NoModel(script)
                                => /\ Len(events') = Len(events) + 1
                                   /\ LastEvent.sig = "error"
                                   /\ LastEvent.arg.kind = "invalid_result"
                                   /\ files' = files
       /\ (history_pointer' = history_pointer - 1 /\ trail'.op = "undo")
            => \A script \in Scripts0 :
                    replay_snapshot_script(MsgEnv, "undo", script)
                        => ReplayNeedsWorkplane(script)
       /\ (history_pointer' = history_pointer + 1
                /\ model_history' = model_history)
            => \A script \in Scripts0 :
                    replay_snapshot_script(MsgEnv, "redo", script)
                        => ReplayNeedsWorkplane(script)]_vars

\* the invalid-result failure of a worker has been handled and no temporary
\* file exists
C21_Witness ==
    /\ status.kind = "invalid_result"
    /\ status.code \in Codes
    /\ files \cap TempNames = {}

\* the mode the claim gives to a worker with these fields
ClaimedMode(wr) ==
    CASE wr.image # "" -> "FromImage"
      [] wr.image = "" /\ wr.existing # "" -> "Revision"
      [] OTHER -> "Fresh"

\* C22: the prompt a worker sends is FromImage when its image is non-empty
\* (also when existing code is set), otherwise Revision when its existing
\* code is non-empty, otherwise Fresh; a worker started by
\* generate_cad_query has no image and the current code of that moment as
\* its existing code, so its prompt is Revision exactly when
\* current_cad_code is non-empty then.
C22_PromptModePriority ==
    /\ [](\A w \in Workers :
            workers[w].mode # "" => workers[w].mode = ClaimedMode(workers[w]))
    /\ [][\A w \in Workers :
            (/\ generate_cad_query(PromptEnv)
             /\ workers[w].pc # "net"
             /\ workers'[w].pc = "net")
                => /\ workers'[w].image = ""
                   /\ workers'[w].existing = current_cad_code
                   /\ ClaimedMode(workers'[w]) =
                        IF current_cad_code # "" THEN "Revision"
                        ELSE "Fresh"]_vars

\* a worker with both an image and existing code has sent the FromImage
\* prompt, and a worker started from a non-empty current code the Revision
\* prompt
C22_Witness ==
    /\ \E w \in Workers :
            /\ workers[w].mode = "FromImage"
            /\ workers[w].existing # ""
    /\ \E w \in Workers :
            /\ workers[w].mode = "Revision"
            /\ workers[w].existing = current_cad_code

\* how a request ends when it fails: HTTP status, connection, other
\* transport failure, unparseable reply, any other exception, no candidate
NetFailures == NetOutcomes \ {"text"}

\* C23: on every network or response failure the worker emits
\* generation_error exactly once and stops: no code_generated, no
\* execution, no temporary file.
C23_NetFailureStops ==
    /\ [][\A w \in Workers :
            (workers[w].pc = "net" /\ workers'[w].pc # "net")
                => \A net \in NetFailures, text \in Codes \cup {""} :
                    run_request_reply(CoreEnv, w, net, text)
                        => /\ events' = Append(events, LastEvent)
                           /\ LastEvent.sig = "error" /\ LastEvent.w = w
                           /\ workers'[w].sent = <<"error">>
                           /\ workers'[w].pc = "done"
                           /\ files' = files]_vars
    /\ [](\A w \in Workers :
            (workers[w].sent # <<>> /\ workers[w].sent[1] = "error")
                => /\ workers[w].sent = <<"error">>
                   /\ workers[w].pc = "done"
                   /\ workers[w].code = "")

\* a worker has stopped after a failed request: its only signal is the
\* generation_error that waits for the UI thread, and no temporary file
\* exists
C23_Witness ==
    \E w \in Workers :
        /\ workers[w].pc = "done"
        /\ workers[w].sent = <<"error">>
        /\ PendingTerminal(w)
        /\ files \cap TempNames = {}

\* C24: when the cleaning of lines 100-103 has been applied to a reply
\* text, (1) if the text is an opening fence tagged python, an inner text
\* and a closing fence, with whitespace allowed around the whole, the
\* cleaned text is the inner text without its leading and trailing
\* whitespace, so it neither starts nor ends with whitespace, and it
\* holds a fence marker only if the inner text holds one; (2) if the
\* text, whitespace aside, neither starts with the opening fence tagged
\* python nor ends with a fence, the cleaned text is the reply text
Spaces(n) == [i \in 1..n |-> " "]
NoEdgeSpace(s) == s = <<>> \/ (s[1] # " " /\ s[Len(s)] # " ")
HasFence(s) ==
    \E i \in 1..Len(s) : i + 2 <= Len(s) /\ SubSeq(s, i, i + 2) = CloseFence
Wrapped(text, inner) ==
    \E i, j \in 0..Len(text) :
        text = Spaces(i) \o OpenFence \o inner \o CloseFence \o Spaces(j)
OpensFenced(text) ==
    \E i \in 0..Len(text) : StartsWith(text, Spaces(i) \o OpenFence)
ClosesFenced(text) ==
    \E j \in 0..Len(text) : EndsWith(text, CloseFence \o Spaces(j))
C24_FencesStripped ==
    reply_text.pc = "clean" =>
        LET text == reply_text.text
            code == reply_text.code
        IN  /\ \A a \in 1..(Len(text) + 1), b \in 0..Len(text) :
                   (a <= b + 1 /\ Wrapped(text, SubSeq(text, a, b))) =>
                       /\ \E i, j \in 0..Len(text) :
                              SubSeq(text, a, b) =
                                  Spaces(i) \o code \o Spaces(j)
                       /\ NoEdgeSpace(code)
                       /\ ~HasFence(SubSeq(text, a, b)) => ~HasFence(code)
            /\ (~OpensFenced(text) /\ ~ClosesFenced(text)) => code = text
\* the example of the claim: ```python, a line break, one line of code, a
\* line break, ``` is cleaned to the line of code
C24_Witness ==
    /\ reply_text.pc = "clean"
    /\ reply_text.text = OpenFence \o <<" ", "x", " ">> \o CloseFence
    /\ reply_text.code = <<"x">>

\* C25: when open_file has loaded a mesh, the first worker that
\* generate_cad_query starts afterwards is constructed without existing
\* code and without an image, so its prompt is the Fresh one, whatever
\* workers were running when the file was opened
C25_FreshAfterOpen ==
    [][(since = "open" /\ since' = "none") =>
           PromptMode(workers'[NewWorker].existing,
                      workers'[NewWorker].image) = "Fresh"]_vars

\* C26: after clear_model or a confirmed new_file, and as long as no worker
\* was started since, model_history and current_cad_code are empty and the
\* viewer holds and shows no mesh
C26_ResetStays ==
    since = "reset" =>
        /\ model_history = <<>>
        /\ current_cad_code = ""
        /\ ~current_mesh
        /\ ~plotter_shown

\* C27: whenever the session is Idle (the generate control is enabled, no
\* worker runs and no signal waits), none of the temporary files the
\* program created exists
C27_NoTempLeft == Idle => files \cap TempNames = {}

====
